---- MODULE Spec2Model ----
(***************************************************************************)
(* CineMatch recommendation core: MoodAnalyzer.analyze over the module     *)
(* level lookup tables of config.py, and the three recommenders of         *)
(* RecommendationEngine over DataManager.movies_df.                        *)
(*                                                                         *)
(* Strings are TLA+ strings; `keyword in text` is the substring test of    *)
(* Python, computed with SubSeq.  Python lists are sequences, dicts are    *)
(* functions plus their insertion order.  Floating point scores are kept   *)
(* as exact fractions [num, den].                                          *)
(***************************************************************************)
EXTENDS Integers, Sequences, FiniteSets, TLC

\* ------------------------------------------------------------------------
\* Bounds of the model
\* ------------------------------------------------------------------------
MaxPhrases == 2          \* phrases per mood text
MaxGenreListLen == 12    \* cap on the length a genre list of the table may grow to
MaxMovies == 3           \* rows of movies_df
MaxN == 4                \* largest n passed to a recommender
MaxGenres == 2           \* tags per genre list handed to calculate_similarity_score
MaxHistory == 2          \* entries the watch history may grow to

\* ------------------------------------------------------------------------
\* State
\* ------------------------------------------------------------------------
VARIABLES
    EMOTION_GENRE_MAP,   \* config.EMOTION_GENRE_MAP, the module level dict object
    MOOD_KEYWORDS,       \* config.MOOD_KEYWORDS (MoodAnalyzer.mood_keywords is the same object)
    TIME_PREFERENCES,    \* config.TIME_PREFERENCES
    movies_df,           \* DataManager.movies_df
    ret,                 \* the last call: its arguments and the value it returned
    threads,             \* per thread: position in analyze and its local variables
    file_handler         \* FileHandler.watch_history and the contents of WATCH_HISTORY_FILE

vars == <<EMOTION_GENRE_MAP, MOOD_KEYWORDS, TIME_PREFERENCES, movies_df, ret, threads,
          file_handler>>

\* ------------------------------------------------------------------------
\* config.py: the dict literals (the value of each table at import time)
\* ------------------------------------------------------------------------
EmotionOrder ==
    <<"happy", "sad", "angry", "stressed", "anxious", "bored", "excited",
      "lonely", "tired", "motivated", "romantic", "scared", "curious",
      "nostalgic", "adventurous">>

Emotions == {EmotionOrder[i] : i \in DOMAIN EmotionOrder}

EmotionGenreMapLiteral ==
       "happy" :> <<"Comedy", "Romance", "Animation", "Musical", "Family">>
    @@ "sad" :> <<"Drama", "Romance", "Animation">>
    @@ "angry" :> <<"Action", "Thriller", "Crime", "War">>
    @@ "stressed" :> <<"Comedy", "Animation", "Family", "Documentary">>
    @@ "anxious" :> <<"Comedy", "Animation", "Romance", "Feel-Good">>
    @@ "bored" :> <<"Action", "Adventure", "Sci-Fi", "Fantasy", "Mystery">>
    @@ "excited" :> <<"Action", "Adventure", "Thriller", "Sci-Fi">>
    @@ "lonely" :> <<"Romance", "Drama", "Comedy">>
    @@ "tired" :> <<"Animation", "Comedy", "Light Drama">>
    @@ "motivated" :> <<"Biography", "Documentary", "Drama", "Sport">>
    @@ "romantic" :> <<"Romance", "Romantic Comedy", "Drama">>
    @@ "scared" :> <<"Horror", "Thriller", "Mystery">>
    @@ "curious" :> <<"Documentary", "Mystery", "Sci-Fi", "History">>
    @@ "nostalgic" :> <<"Classic", "Animation", "Drama", "Period">>
    @@ "adventurous" :> <<"Adventure", "Action", "Fantasy", "Sci-Fi">>

MoodKeywordsLiteral ==
       "happy" :> <<"happy", "joy", "excited", "great", "amazing", "wonderful", "cheerful", "delighted", "glad">>
    @@ "sad" :> <<"sad", "depressed", "down", "unhappy", "miserable", "heartbroken", "gloomy", "blue", "crying">>
    @@ "angry" :> <<"angry", "mad", "furious", "annoyed", "irritated", "frustrated", "rage", "upset">>
    @@ "stressed" :> <<"stressed", "overwhelmed", "pressure", "tense", "anxious", "worried", "exam", "deadline", "busy">>
    @@ "anxious" :> <<"anxious", "nervous", "worried", "uneasy", "restless", "concerned", "panic">>
    @@ "bored" :> <<"bored", "boring", "dull", "monotonous", "tedious", "nothing to do", "uninterested">>
    @@ "excited" :> <<"excited", "thrilled", "pumped", "energetic", "enthusiastic", "hyped">>
    @@ "lonely" :> <<"lonely", "alone", "isolated", "solitary", "breakup", "broke up", "missing">>
    @@ "tired" :> <<"tired", "exhausted", "fatigued", "drained", "weary", "sleepy", "worn out">>
    @@ "motivated" :> <<"motivated", "inspired", "driven", "ambitious", "determined", "focused">>
    @@ "romantic" :> <<"romantic", "love", "relationship", "date", "valentine", "crush">>
    @@ "scared" :> <<"scared", "afraid", "frightened", "terrified", "fear">>
    @@ "curious" :> <<"curious", "wondering", "interested", "learn", "discover", "explore">>
    @@ "nostalgic" :> <<"nostalgic", "memories", "remember", "childhood", "old times", "past">>
    @@ "adventurous" :> <<"adventure", "adventurous", "explore", "travel", "journey">>

TimePreferencesLiteral ==
       "morning" :> <<"Documentary", "Biography", "Family", "Light Comedy">>
    @@ "afternoon" :> <<"Action", "Adventure", "Comedy", "Drama">>
    @@ "evening" :> <<"Drama", "Thriller", "Romance", "Mystery">>
    @@ "night" :> <<"Horror", "Thriller", "Mystery", "Sci-Fi", "Psychological">>

\* mood_analyzer.py: the keyword lists local to _detect_energy / _detect_complexity
high_energy == <<"energetic", "excited", "pumped", "active", "hyper", "motivated">>
low_energy == <<"tired", "exhausted", "sleepy", "drained", "lazy", "calm", "relaxed">>
simplicity_words == <<"simple", "easy", "light", "mindless", "brain off">>
depth_words == <<"complex", "deep", "thought", "intellectual", "mind-bending">>

Levels == {"low", "medium", "high"}

\* ------------------------------------------------------------------------
\* Python built-ins used by the code
\* ------------------------------------------------------------------------
Range(s) == {s[i] : i \in DOMAIN s}

\* str.lower() on one character (ASCII letters; every other character is kept)
LowerChar(c) ==
    CASE c = "A" -> "a" [] c = "B" -> "b" [] c = "C" -> "c" [] c = "D" -> "d"
      [] c = "E" -> "e" [] c = "F" -> "f" [] c = "G" -> "g" [] c = "H" -> "h"
      [] c = "I" -> "i" [] c = "J" -> "j" [] c = "K" -> "k" [] c = "L" -> "l"
      [] c = "M" -> "m" [] c = "N" -> "n" [] c = "O" -> "o" [] c = "P" -> "p"
      [] c = "Q" -> "q" [] c = "R" -> "r" [] c = "S" -> "s" [] c = "T" -> "t"
      [] c = "U" -> "u" [] c = "V" -> "v" [] c = "W" -> "w" [] c = "X" -> "x"
      [] c = "Y" -> "y" [] c = "Z" -> "z" [] OTHER -> c

\* str.lower()
RECURSIVE Lower(_)
Lower(s) ==
    IF Len(s) = 0 THEN s
    ELSE LowerChar(SubSeq(s, 1, 1)) \o Lower(SubSeq(s, 2, Len(s)))

\* `k in t` for two strings: k is a contiguous substring of t
Contains(k, t) ==
    \E i \in 0..(Len(t) - Len(k)) : SubSeq(t, i + 1, i + Len(k)) = k

\* sum(1 for w in words if w in text)
CountHits(words, text) == Cardinality({i \in DOMAIN words : Contains(words[i], text)})

\* list(dict.fromkeys(l)): drop every later duplicate, keep first-seen order
RECURSIVE DedupFrom(_, _)
DedupFrom(l, seen) ==
    IF l = <<>> THEN <<>>
    ELSE IF Head(l) \in seen THEN DedupFrom(Tail(l), seen)
    ELSE <<Head(l)>> \o DedupFrom(Tail(l), seen \cup {Head(l)})

Dedup(l) == DedupFrom(l, {})

\* dict.get(key, default)
DictGet(d, key, default) == IF key \in DOMAIN d THEN d[key] ELSE default

\* utils.get_time_of_day for the hour read from the wall clock
get_time_of_day(hour) ==
    IF 5 <= hour /\ hour < 12 THEN "morning"
    ELSE IF 12 <= hour /\ hour < 17 THEN "afternoon"
    ELSE IF 17 <= hour /\ hour < 22 THEN "evening"
    ELSE "night"

\* ------------------------------------------------------------------------
\* Exact arithmetic for the float scores: a value is [num, den] in lowest
\* terms with den > 0, so equal scores are equal records
\* ------------------------------------------------------------------------
RECURSIVE GCD(_, _)
GCD(a, b) == IF b = 0 THEN a ELSE GCD(b, a % b)

Frac(n, d) ==
    LET g == GCD(IF n < 0 THEN -n ELSE n, d)
    IN  IF n = 0 THEN [num |-> 0, den |-> 1] ELSE [num |-> n \div g, den |-> d \div g]

FAdd(a, b) == Frac(a.num * b.den + b.num * a.den, a.den * b.den)
FMul(a, b) == Frac(a.num * b.num, a.den * b.den)
FGt(a, b) == a.num * b.den > b.num * a.den
FInt(n) == Frac(n, 1)

\* sorted(s, key=..., reverse=True) and list.sort(key=..., reverse=True):
\* descending by key, elements of equal key keep their original order.
\* keys[i] is the key of s[i].
SortDescStable(s, keys) ==
    LET n == Len(s)
        rank(i) == 1 + Cardinality({j \in 1..n :
                        FGt(keys[j], keys[i]) \/ (keys[j] = keys[i] /\ j < i)})
    IN  [r \in 1..n |-> s[CHOOSE i \in 1..n : rank(i) = r]]

\* l[:k] for k >= 0
Take(l, k) == SubSeq(l, 1, IF k < Len(l) THEN k ELSE Len(l))

\* ------------------------------------------------------------------------
\* mood_analyzer.py: the text analysis of MoodAnalyzer.analyze (lines 27-51)
\* ------------------------------------------------------------------------
\* emotion_scores with the threshold `score > 1` in place of `score > 0`
emotion_scores_Threshold(text_lower, keywords) ==
    LET hit == {e \in DOMAIN keywords : CountHits(keywords[e], text_lower) > 1}
    IN  [e \in hit |-> CountHits(keywords[e], text_lower)]

\* lines 30-34: emotion -> number of its keywords found in the text, for the
\* emotions with at least one hit
emotion_scores(text_lower, keywords) ==
    LET hit == {e \in DOMAIN keywords : CountHits(keywords[e], text_lower) > 0}
    IN  [e \in hit |-> CountHits(keywords[e], text_lower)]

\* the keys of emotion_scores in insertion order (the order of the keyword table)
ScoredOrder(scores) == SelectSeq(EmotionOrder, LAMBDA e : e \in DOMAIN scores)

\* primary_emotion with a fallback that is not an emotion of the tables
primary_emotion_Neutral(scores) ==
    IF DOMAIN scores = {} THEN "neutral"
    ELSE LET order == ScoredOrder(scores)
             i == CHOOSE i \in DOMAIN order :
                     /\ \A j \in DOMAIN order : scores[order[j]] <= scores[order[i]]
                     /\ \A j \in 1..(i - 1) : scores[order[j]] < scores[order[i]]
         IN  order[i]

\* line 37: max(emotion_scores, key=emotion_scores.get) returns the first key,
\* in insertion order, that has the largest score
primary_emotion(scores) ==
    IF DOMAIN scores = {} THEN "bored"
    ELSE LET order == ScoredOrder(scores)
             i == CHOOSE i \in DOMAIN order :
                     /\ \A j \in DOMAIN order : scores[order[j]] <= scores[order[i]]
                     /\ \A j \in 1..(i - 1) : scores[order[j]] < scores[order[i]]
         IN  order[i]

\* secondary_emotions without `if e != primary_emotion`
secondary_emotions_WithPrimary(scores, primary) ==
    LET others == ScoredOrder(scores)
    IN  Take(SortDescStable(others, [i \in DOMAIN others |-> FInt(scores[others[i]])]), 2)

\* lines 40-45
secondary_emotions(scores, primary) ==
    LET others == SelectSeq(ScoredOrder(scores), LAMBDA e : e # primary)
    IN  Take(SortDescStable(others, [i \in DOMAIN others |-> FInt(scores[others[i]])]), 2)

\* _detect_energy without the medium case: equal counts give low
_detect_energy_NoMedium(text) ==
    LET high_count == CountHits(high_energy, text)
        low_count == CountHits(low_energy, text)
    IN  IF high_count > low_count THEN "high" ELSE "low"

\* _detect_energy with `>=` in the first test: equal counts give high
_detect_energy_AtLeast(text) ==
    LET high_count == CountHits(high_energy, text)
        low_count == CountHits(low_energy, text)
    IN  IF high_count >= low_count THEN "high"
        ELSE IF low_count > high_count THEN "low"
        ELSE "medium"

\* lines 77-90
_detect_energy(text) ==
    LET high_count == CountHits(high_energy, text)
        low_count == CountHits(low_energy, text)
    IN  IF high_count > low_count THEN "high"
        ELSE IF low_count > high_count THEN "low"
        ELSE "medium"

\* _detect_complexity without the `energy_level == 'low'` branch
_detect_complexity_NoLowEnergy(text, energy_level) ==
    IF \E i \in DOMAIN simplicity_words : Contains(simplicity_words[i], text) THEN "low"
    ELSE IF \E i \in DOMAIN depth_words : Contains(depth_words[i], text) THEN "high"
    ELSE "medium"

\* _detect_complexity with the depth words tested before the simplicity words
_detect_complexity_DepthFirst(text, energy_level) ==
    IF \E i \in DOMAIN depth_words : Contains(depth_words[i], text) THEN "high"
    ELSE IF \E i \in DOMAIN simplicity_words : Contains(simplicity_words[i], text) THEN "low"
    ELSE IF energy_level = "low" THEN "low"
    ELSE IF energy_level = "high" THEN "medium"
    ELSE "medium"

\* lines 92-103
_detect_complexity(text, energy_level) ==
    IF \E i \in DOMAIN simplicity_words : Contains(simplicity_words[i], text) THEN "low"
    ELSE IF \E i \in DOMAIN depth_words : Contains(depth_words[i], text) THEN "high"
    ELSE IF energy_level = "low" THEN "low"
    ELSE IF energy_level = "high" THEN "medium"
    ELSE "medium"

\* lines 27-51: everything analyze computes before it touches the genre table
AnalyzeText(text, keywords) ==
    LET text_lower == Lower(text)
        scores == emotion_scores(text_lower, keywords)
        primary == primary_emotion(scores)
        energy == _detect_energy(text_lower)
    IN  [primary_emotion |-> primary,
         secondary_emotions |-> secondary_emotions(scores, primary),
         energy_level |-> energy,
         complexity |-> _detect_complexity(text_lower, energy)]

\* lines 54-58.  EMOTION_GENRE_MAP.get returns the list object stored in the
\* table, not a copy, so every extend of the loop appends to the table's own
\* list of the primary emotion.  ExtendLoop gives the table and the local
\* list after the loop; `aliased` says whether the local list is the table's.
RECURSIVE ExtendLoop(_, _, _, _, _)
ExtendLoop(table, aliased, primary, local, secs) ==
    IF secs = <<>> THEN [table |-> table, preferred_genres |-> local]
    ELSE LET grown == local \o DictGet(table, Head(secs), <<>>)
         IN  ExtendLoop(IF aliased THEN [table EXCEPT ![primary] = grown] ELSE table,
                        aliased, primary, grown, Tail(secs))

\* line 54
GetPreferredGenres(table, primary) == DictGet(table, primary, <<"Drama", "Comedy">>)

\* line 61 left out: the list is returned as it is
RemoveDuplicates_Skipped(l) == l

\* line 61
RemoveDuplicates(l) == Dedup(l)

\* ------------------------------------------------------------------------
\* utils.py
\* ------------------------------------------------------------------------
\* the overlap taken over the user's genres instead of the union
calculate_similarity_score_OverUser(user_genres, movie_genres) ==
    LET user_set == Range(user_genres)
        movie_set == Range(movie_genres)
        intersection == Cardinality(user_set \cap movie_set)
    IN  IF user_set = {} \/ movie_set = {} THEN FInt(0)
        ELSE FMul(Frac(intersection, Cardinality(user_set)), FInt(100))

\* the overlap returned as a fraction of 1, without the `* 100` of line 28
calculate_similarity_score_Unscaled(user_genres, movie_genres) ==
    LET user_set == Range(user_genres)
        movie_set == Range(movie_genres)
        intersection == Cardinality(user_set \cap movie_set)
        union == Cardinality(user_set \cup movie_set)
    IN  IF user_set = {} \/ movie_set = {} THEN FInt(0)
        ELSE IF union > 0 THEN Frac(intersection, union) ELSE FInt(0)

\* calculate_similarity_score: Jaccard overlap of the two genre lists, 0-100
calculate_similarity_score(user_genres, movie_genres) ==
    LET user_set == Range(user_genres)
        movie_set == Range(movie_genres)
        intersection == Cardinality(user_set \cap movie_set)
        union == Cardinality(user_set \cup movie_set)
    IN  IF user_set = {} \/ movie_set = {} THEN FInt(0)
        ELSE FMul(IF union > 0 THEN Frac(intersection, union) ELSE FInt(0), FInt(100))

\* ------------------------------------------------------------------------
\* Movie rows.  genres is the '|'-joined string of the CSV column.
\* ------------------------------------------------------------------------
\* str.split('|')
RECURSIVE Split(_)
Split(s) ==
    IF \E i \in 1..Len(s) : SubSeq(s, i, i) = "|"
    THEN LET i == CHOOSE i \in 1..Len(s) :
                    /\ SubSeq(s, i, i) = "|"
                    /\ \A j \in 1..(i - 1) : SubSeq(s, j, j) # "|"
         IN  <<SubSeq(s, 1, i - 1)>> \o Split(SubSeq(s, i + 1, Len(s)))
    ELSE <<s>>

\* rows of DataManager._create_sample_movies (id, genres, rating, complexity)
MoviePool ==
    << [id |-> 5,  genres |-> "Animation|Family|Comedy",  rating |-> Frac(83, 10), complexity |-> "low"],
       [id |-> 7,  genres |-> "Horror|Mystery|Thriller",  rating |-> Frac(75, 10), complexity |-> "medium"],
       [id |-> 50, genres |-> "Drama|Horror|Thriller",    rating |-> Frac(75, 10), complexity |-> "medium"],
       [id |-> 11, genres |-> "Action|Sci-Fi",            rating |-> Frac(87, 10), complexity |-> "high"],
       [id |-> 28, genres |-> "Drama|Music",              rating |-> Frac(85, 10), complexity |-> "high"],
       [id |-> 39, genres |-> "Animation|Family|Musical", rating |-> Frac(74, 10), complexity |-> "low"],
       [id |-> 40, genres |-> "Animation|Family|Comedy",  rating |-> Frac(82, 10), complexity |-> "low"] >>

\* one more row of the sample data, and rows a cached movies.csv can hold
ExtraRows ==
    << [id |-> 15,  genres |-> "Action|Adventure|Sci-Fi", rating |-> Frac(80, 10),  complexity |-> "medium"],
       [id |-> 101, genres |-> "Drama",                   rating |-> Frac(90, 10),  complexity |-> "high"],
       [id |-> 102, genres |-> "Horror|Mystery|Thriller", rating |-> Frac(100, 10), complexity |-> "low"],
       [id |-> 103, genres |-> "Comedy",                  rating |-> Frac(0, 10),   complexity |-> "medium"],
       [id |-> 104, genres |-> "Live-Action|Family",      rating |-> Frac(70, 10),  complexity |-> "medium"] >>

\* the catalog of the scoring specification
ScoreCatalog == MoviePool \o ExtraRows

\* the catalogs: up to MaxMovies consecutive rows of the pool
Catalogs ==
    {SubSeq(MoviePool, w[1], w[1] + w[2] - 1) :
        w \in {v \in (DOMAIN MoviePool) \X (1..MaxMovies) : v[1] + v[2] - 1 <= Len(MoviePool)}}

\* ------------------------------------------------------------------------
\* pandas operations used by the engine
\* ------------------------------------------------------------------------
\* head with an off-by-one row count
Head_n_OneMore(df, n) == Take(df, n + 1)

\* df.head(n), n >= 0
Head_n(df, n) == Take(df, n)

\* df.sort_values('score', ascending=False): the default sort kind is not
\* stable, so rows of equal score may come out in any order.  rows carry
\* their score; the result is one of the descending arrangements.
RowOrders(n) == {p \in [1..n -> 1..n] : \A i, j \in 1..n : i # j => p[i] # p[j]}

\* sort_values with ascending=True
sort_values_Ascending(rows) ==
    {[k \in 1..Len(rows) |-> rows[p[k]]] : p \in
        {q \in RowOrders(Len(rows)) :
            \A i, j \in 1..Len(rows) :
                i < j => ~FGt(rows[q[i]].score, rows[q[j]].score)}}

sort_values_desc(rows) ==
    {[k \in 1..Len(rows) |-> rows[p[k]]] : p \in
        {q \in RowOrders(Len(rows)) :
            \A i, j \in 1..Len(rows) :
                i < j => ~FGt(rows[q[j]].score, rows[q[i]].score)}}

\* the first n rows as they stand
nlargest_Head(df, n) == Take(df, n)

\* df.nlargest(n, 'rating'): descending rating, ties in row order (keep='first')
nlargest(df, n) == Take(SortDescStable(df, [i \in DOMAIN df |-> df[i].rating]), n)

\* ------------------------------------------------------------------------
\* recommendation_engine.py and data_manager.py
\* ------------------------------------------------------------------------
\* line 106: the separator of the reason parts, a bullet (U+2022) between
\* two spaces in the code, written here with an ASCII asterisk
Separator == " * "

\* the genre term taken over the preferred genres instead of the movie's
genre_score_OverPreferred(movie_genres, preferred_genres) ==
    LET genre_match_count == Cardinality({i \in DOMAIN movie_genres :
                                 movie_genres[i] \in Range(preferred_genres)})
    IN  IF genre_match_count > 0
        THEN FMul(Frac(genre_match_count, Len(preferred_genres)), FInt(30))
        ELSE FInt(0)

\* lines 73-76: the share of the movie's genres that are preferred, times 30
genre_score(movie_genres, preferred_genres) ==
    LET genre_match_count == Cardinality({i \in DOMAIN movie_genres :
                                 movie_genres[i] \in Range(preferred_genres)})
    IN  IF genre_match_count > 0
        THEN FMul(Frac(genre_match_count, Len(movie_genres)), FInt(30))
        ELSE FInt(0)

\* the time bonus given once, however many genres match
time_bonus_Flat(movie_genres, time_genres) ==
    LET time_match == Cardinality({i \in DOMAIN movie_genres :
                                 movie_genres[i] \in Range(time_genres)})
    IN  IF time_match > 0 THEN FInt(5) ELSE FInt(0)

\* lines 80-83: 5 points per movie genre that is a genre of the time of day
time_bonus(movie_genres, time_genres) ==
    LET time_match == Cardinality({i \in DOMAIN movie_genres :
                                 movie_genres[i] \in Range(time_genres)})
    IN  IF time_match > 0 THEN FInt(time_match * 5) ELSE FInt(0)

\* the join of every part
RECURSIVE JoinReason_All(_)
JoinReason_All(reason_parts) ==
    IF Len(reason_parts) = 1 THEN reason_parts[1]
    ELSE reason_parts[1] \o Separator \o JoinReason_All(Tail(reason_parts))

\* line 106: " • ".join(reason_parts[:2]), reason_parts not empty
JoinReason(reason_parts) ==
    LET first_two == Take(reason_parts, 2)
    IN  IF Len(first_two) = 1 THEN first_two[1]
        ELSE first_two[1] \o Separator \o first_two[2]

\* _calculate_mood_score, lines 61-108: [score, reason]
_calculate_mood_score(movie, mood_profile) ==
    LET movie_genres == Split(movie.genres)
        preferred_genres == mood_profile.preferred_genres
        genre_match_count == Cardinality({i \in DOMAIN movie_genres :
                                 movie_genres[i] \in Range(preferred_genres)})
        time_match == Cardinality({i \in DOMAIN movie_genres :
                                 movie_genres[i] \in Range(mood_profile.time_genres)})
        same_complexity == movie.complexity = mood_profile.complexity
        relaxing == mood_profile.energy_level = "low" /\ movie.complexity = "low"
        high_energy_hit == /\ ~relaxing
                           /\ mood_profile.energy_level = "high"
                           /\ Contains("Action", movie.genres)
        score == FAdd(FAdd(FAdd(FAdd(
                    FMul(FMul(movie.rating, Frac(1, 10)), FInt(50)),
                    genre_score(movie_genres, preferred_genres)),
                    time_bonus(movie_genres, mood_profile.time_genres)),
                    IF same_complexity THEN FInt(15) ELSE FInt(0)),
                    IF relaxing \/ high_energy_hit THEN FInt(10) ELSE FInt(0))
        reason_parts ==
            (IF genre_match_count > 0
             THEN <<"Perfect " \o movie_genres[1] \o " for "
                    \o mood_profile.primary_emotion \o " mood">>
             ELSE <<>>)
            \o (IF time_match > 0 THEN <<"Great for this time of day">> ELSE <<>>)
            \o (IF same_complexity /\ mood_profile.complexity = "low"
                THEN <<"Easy to follow">>
                ELSE IF same_complexity /\ mood_profile.complexity = "high"
                THEN <<"Intellectually engaging">> ELSE <<>>)
            \o (IF relaxing THEN <<"Perfect for relaxing">>
                ELSE IF high_energy_hit THEN <<"High-energy entertainment">> ELSE <<>>)
        parts == IF reason_parts = <<>>
                 THEN <<"Highly rated " \o movie_genres[1]>> ELSE reason_parts
    IN  [score |-> score, reason |-> JoinReason(parts)]

\* the complexity filter applied only when it keeps more than n rows
MoodCandidates_MoreThanN(df, mood_profile, n) ==
    LET complexity_matches ==
            SelectSeq(df, LAMBDA m : m.complexity = mood_profile.complexity)
    IN  IF mood_profile.complexity \in {"low", "medium", "high"}
           /\ Len(complexity_matches) > n
        THEN complexity_matches ELSE df

\* get_mood_recommendations lines 25-32: the rows that get scored
MoodCandidates(df, mood_profile, n) ==
    LET complexity_matches ==
            SelectSeq(df, LAMBDA m : m.complexity = mood_profile.complexity)
    IN  IF mood_profile.complexity \in {"low", "medium", "high"}
           /\ Len(complexity_matches) >= n
        THEN complexity_matches ELSE df

\* lines 38-46: the candidates with their score and reason columns
MoodScored(df, mood_profile, n) ==
    LET candidates == MoodCandidates(df, mood_profile, n)
    IN  [k \in DOMAIN candidates |->
            [movie |-> candidates[k],
             score |-> _calculate_mood_score(candidates[k], mood_profile).score,
             reason |-> _calculate_mood_score(candidates[k], mood_profile).reason]]

\* DataManager.filter_by_genres, lines 177-185: `genre in x` tests the joined
\* genre string of the row
filter_by_genres(df, preferred_genres) ==
    IF preferred_genres = <<>> THEN df
    ELSE SelectSeq(df, LAMBDA m : \E i \in DOMAIN preferred_genres :
                                   Contains(preferred_genres[i], m.genres))

\* the candidates with the movies of the watch history taken out
GenreCandidates_Unwatched(df, favorite_genres) ==
    LET candidates == filter_by_genres(df, favorite_genres)
        watched == {file_handler.watch_history[i].movie_id :
                        i \in DOMAIN file_handler.watch_history}
    IN  SelectSeq(IF Len(candidates) = 0 THEN df ELSE candidates,
                  LAMBDA m : m.id \notin watched)

\* get_genre_based_recommendations lines 118-123
GenreCandidates(df, favorite_genres) ==
    LET candidates == filter_by_genres(df, favorite_genres)
    IN  IF Len(candidates) = 0 THEN df ELSE candidates

\* lines 125-135 and 143
GenreScored(df, favorite_genres) ==
    LET candidates == GenreCandidates(df, favorite_genres)
        two == Take(favorite_genres, 2)
        reason == "Matches your taste in "
                    \o (IF Len(two) = 1 THEN two[1] ELSE two[1] \o ", " \o two[2])
    IN  [k \in DOMAIN candidates |->
            [movie |-> candidates[k],
             score |-> FAdd(FMul(calculate_similarity_score(favorite_genres,
                                     Split(candidates[k].genres)), Frac(7, 10)),
                            FMul(candidates[k].rating, FInt(3))),
             reason |-> reason]]

\* lines 112-116
TopRated(df, n) ==
    LET top_movies == nlargest(df, n)
    IN  [k \in DOMAIN top_movies |->
            [movie |-> top_movies[k],
             score |-> FMul(top_movies[k].rating, FInt(10)),
             reason |-> "Highly rated"]]

\* DataManager.get_movie_by_id: the first row with that id, or None
None == [none |-> TRUE]

\* get_movie_by_id that falls back to the first row of the catalog
get_movie_by_id_FirstRow(df, movie_id) ==
    IF \E k \in DOMAIN df : df[k].id = movie_id
    THEN df[CHOOSE k \in DOMAIN df :
                /\ df[k].id = movie_id
                /\ \A j \in 1..(k - 1) : df[j].id # movie_id]
    ELSE df[1]

get_movie_by_id(df, movie_id) ==
    IF \E k \in DOMAIN df : df[k].id = movie_id
    THEN df[CHOOSE k \in DOMAIN df :
                /\ df[k].id = movie_id
                /\ \A j \in 1..(k - 1) : df[j].id # movie_id]
    ELSE None

\* the loop without the `continue` of lines 160-161: the target is scored too
SimilarScored_WithTarget(df, movie_id) ==
    LET target_genres == Split(get_movie_by_id(df, movie_id).genres)
    IN  [k \in DOMAIN df |->
            [movie |-> df[k],
             score |-> FAdd(FMul(calculate_similarity_score(target_genres,
                                     Split(df[k].genres)), Frac(8, 10)),
                            FMul(df[k].rating, FInt(2))),
             reason |-> "Similar style and genre"]]

\* get_similar_movies lines 154-168: every other row with its score
SimilarScored(df, movie_id) ==
    LET target_genres == Split(get_movie_by_id(df, movie_id).genres)
        others == SelectSeq(df, LAMBDA m : m.id # movie_id)
    IN  [k \in DOMAIN others |->
            [movie |-> others[k],
             score |-> FAdd(FMul(calculate_similarity_score(target_genres,
                                     Split(others[k].genres)), Frac(8, 10)),
                            FMul(others[k].rating, FInt(2))),
             reason |-> "Similar style and genre"]]

\* lines 171-176: list.sort is stable
SimilarSorted(df, movie_id) ==
    LET similarities == SimilarScored(df, movie_id)
    IN  SortDescStable(similarities, [i \in DOMAIN similarities |-> similarities[i].score])

\* ------------------------------------------------------------------------
\* Inputs
\* ------------------------------------------------------------------------
Phrases == {"unhappy", "Excited", "anxious", "tired"}

\* the text of test_setup.py, and texts with energy and complexity keywords
ExampleText == "I'm stressed from exams and tired"
ExtraTexts ==
    {ExampleText, "deep", "something simple and deep", "lazy", "HYPER active", "so lonely",
     "happy joy great sad tired exhausted", "hyper active but tired",
     "tired and lazy yet hyper", "pumped, simple", "lazy but deep"}

RECURSIVE Join(_)
Join(ps) == IF Len(ps) = 0 THEN ""
            ELSE IF Len(ps) = 1 THEN ps[1]
            ELSE ps[1] \o " " \o Join(Tail(ps))

PhraseSeqs == UNION {[1..k -> Phrases] : k \in 0..MaxPhrases}

\* the mood texts: up to MaxPhrases phrases, and the extra texts
Texts == {Join(ps) : ps \in PhraseSeqs} \cup ExtraTexts

\* the mood texts of the whole-program specification and of the threads
EngineTexts == {"", ExampleText, "deep", "HYPER active"}
ThreadTexts == {"so lonely", "tired and lonely", "unhappy", ""}

\* the mood texts of the scoring specification
ScoreTexts ==
    EngineTexts \cup {"so lonely deep", "pumped for something complex",
                      "scared and hyper", "scared and tired"}

\* clock readings: the first hour of each time bucket
Hours == {5, 12, 17, 22}

Ns == 0..MaxN

FavoriteGenres ==
    {<<>>, <<"Music">>, <<"Comedy", "Drama">>, <<"Western">>,
     <<"Horror", "Thriller", "Mystery">>}

\* the ids of the pool and one id no catalog holds
MovieIds == {MoviePool[k].id : k \in DOMAIN MoviePool} \cup {999}

ThreadIds == {1, 2}

\* the catalog, the texts and the entry values of the watch history
\* specification: three rows of the sample data with their titles
HistoryCatalog == SubSeq(MoviePool, 4, 6)
Titles == (11 :> "The Matrix") @@ (28 :> "Whiplash") @@ (39 :> "Frozen")
HistoryTexts == {"", ExampleText}
HistoryMoods == {None}
Timestamps == {"2024-01-01T20:00:00"}

\* the genre lists handed to calculate_similarity_score on its own: up to
\* MaxGenres tags, the empty list and lists with a repeated tag included
GenreLists == UNION {[1..k -> {"Action", "Drama", "Thriller"}] : k \in 0..MaxGenres}

\* ------------------------------------------------------------------------
\* The state at startup and the calls
\* ------------------------------------------------------------------------
\* AnalyzeText over the texts of the model with the keyword table as
\* imported, evaluated once
AnalysisAtStartup ==
    [t \in Texts \cup EngineTexts \cup ThreadTexts \cup ScoreTexts |-> AnalyzeText(t, MoodKeywordsLiteral)]

\* lines 27-51 of analyze over the current self.mood_keywords
AnalysisOf(text) ==
    IF MOOD_KEYWORDS = MoodKeywordsLiteral /\ text \in DOMAIN AnalysisAtStartup
    THEN AnalysisAtStartup[text]
    ELSE AnalyzeText(text, MOOD_KEYWORDS)

Idle == [pc |-> "idle"]

\* the state after import and construction, with the catalog `df` loaded
InitWith(df) ==
    /\ EMOTION_GENRE_MAP = EmotionGenreMapLiteral
    /\ MOOD_KEYWORDS = MoodKeywordsLiteral
    /\ TIME_PREFERENCES = TimePreferencesLiteral
    /\ movies_df = df
    /\ ret = [op |-> "none"]
    /\ threads = [t \in ThreadIds |-> Idle]
    /\ file_handler = [watch_history |-> <<>>, WATCH_HISTORY_FILE |-> <<>>]

Init == \E df \in Catalogs : InitWith(df)

\* lines 67-75: the returned dict
Profile(text, a, preferred_genres, hour) ==
    [primary_emotion |-> a.primary_emotion,
     secondary_emotions |-> a.secondary_emotions,
     energy_level |-> a.energy_level,
     preferred_genres |-> preferred_genres,
     complexity |-> a.complexity,
     time_genres |-> DictGet(TIME_PREFERENCES, get_time_of_day(hour), <<>>),
     raw_text |-> text]

\* MoodAnalyzer.analyze(text) as one call, with the clock reading `hour`
Analyze(text, hour) ==
    LET a == AnalysisOf(text)
        primary == a.primary_emotion
        loop == ExtendLoop(EMOTION_GENRE_MAP, primary \in DOMAIN EMOTION_GENRE_MAP,
                           primary, GetPreferredGenres(EMOTION_GENRE_MAP, primary),
                           a.secondary_emotions)
    IN  /\ Len(loop.preferred_genres) <= MaxGenreListLen
        /\ EMOTION_GENRE_MAP' = loop.table
        /\ ret' = [op |-> "analyze", text |-> text,
                   profile |-> Profile(text, a, RemoveDuplicates(loop.preferred_genres), hour)]
        /\ UNCHANGED <<MOOD_KEYWORDS, TIME_PREFERENCES, movies_df, threads, file_handler>>

\* Which object `candidates` names.  is_catalog says whether a frame is the
\* object self.data_manager.movies_df itself, so that a column assigned to it
\* is a column of the catalog.
\* copy() that hands back the frame it was called on
DataFrame_copy_SameObject(is_catalog) == is_catalog

\* DataFrame.copy() (lines 26, 44, 134): a new frame, never the catalog
DataFrame_copy(is_catalog) == FALSE

\* lines 29-32: the boolean-indexed frame is a new frame; without the filter
\* candidates stays the object it was
MoodCandidatesIsCatalog(df, mood_profile, n, is_catalog) ==
    IF /\ mood_profile.complexity \in {"low", "medium", "high"}
       /\ Len(SelectSeq(df, LAMBDA m : m.complexity = mood_profile.complexity)) >= n
    THEN FALSE ELSE is_catalog

\* lines 119-123: filter_by_genres gives a new frame for a non-empty genre
\* list; the fallback binds candidates to the catalog itself
GenreCandidatesIsCatalog(df, favorite_genres) ==
    Len(filter_by_genres(df, favorite_genres)) = 0

\* the catalog after `candidates['score'] = scores` and
\* `candidates['reason'] = reasons` (lines 45-46): when candidates is the
\* catalog object its rows carry the new columns
AssignMoodColumns(df, is_catalog, scored) ==
    IF is_catalog
    THEN [k \in DOMAIN df |->
            [id |-> df[k].id, genres |-> df[k].genres, rating |-> df[k].rating,
             complexity |-> df[k].complexity,
             score |-> scored[k].score, reason |-> scored[k].reason]]
    ELSE df

\* the catalog after `candidates['score'] = scores` (line 135)
AssignScoreColumn(df, is_catalog, scored) ==
    IF is_catalog
    THEN [k \in DOMAIN df |->
            [id |-> df[k].id, genres |-> df[k].genres, rating |-> df[k].rating,
             complexity |-> df[k].complexity, score |-> scored[k].score]]
    ELSE df

\* RecommendationEngine.get_mood_recommendations(mood_profile, n), called
\* with the profile analyze has returned, once or again
GetMoodRecommendations(n) ==
    /\ ret.op \in {"analyze", "mood"}
    /\ \E sorted \in sort_values_desc(MoodScored(movies_df, ret.profile, n)) :
          ret' = [op |-> "mood", profile |-> ret.profile, n |-> n,
                  results |-> Head_n(sorted, n)]
    /\ movies_df' =
          AssignMoodColumns(movies_df,
              DataFrame_copy(MoodCandidatesIsCatalog(movies_df, ret.profile, n,
                                                     DataFrame_copy(TRUE))),
              MoodScored(movies_df, ret.profile, n))
    /\ UNCHANGED <<EMOTION_GENRE_MAP, MOOD_KEYWORDS, TIME_PREFERENCES, threads, file_handler>>

\* RecommendationEngine.get_genre_based_recommendations(favorite_genres, n)
GetGenreBasedRecommendations(favorite_genres, n) ==
    /\ IF favorite_genres = <<>>
       THEN ret' = [op |-> "genre", favorite_genres |-> favorite_genres, n |-> n,
                    results |-> TopRated(movies_df, n)]
       ELSE \E sorted \in sort_values_desc(GenreScored(movies_df, favorite_genres)) :
               ret' = [op |-> "genre", favorite_genres |-> favorite_genres, n |-> n,
                       results |-> Head_n(sorted, n)]
    /\ movies_df' =
          IF favorite_genres = <<>> THEN movies_df
          ELSE AssignScoreColumn(movies_df,
                   DataFrame_copy(GenreCandidatesIsCatalog(movies_df, favorite_genres)),
                   GenreScored(movies_df, favorite_genres))
    /\ UNCHANGED <<EMOTION_GENRE_MAP, MOOD_KEYWORDS, TIME_PREFERENCES, threads, file_handler>>

\* RecommendationEngine.get_similar_movies(movie_id, n)
GetSimilarMovies(movie_id, n) ==
    /\ ret' = [op |-> "similar", movie_id |-> movie_id, n |-> n,
               results |-> IF get_movie_by_id(movies_df, movie_id) = None THEN <<>>
                           ELSE Take(SimilarSorted(movies_df, movie_id), n)]
    /\ UNCHANGED <<EMOTION_GENRE_MAP, MOOD_KEYWORDS, TIME_PREFERENCES, movies_df, threads, file_handler>>

\* The whole program, one call at a time
Next ==
    \/ \E text \in EngineTexts : \E hour \in Hours : Analyze(text, hour)
    \/ \E n \in Ns : GetMoodRecommendations(n)
    \/ \E favorite_genres \in FavoriteGenres : \E n \in Ns :
          GetGenreBasedRecommendations(favorite_genres, n)
    \/ \E movie_id \in MovieIds : \E n \in Ns : GetSimilarMovies(movie_id, n)

Spec == Init /\ [][Next]_vars

\* The mood analyzer alone over every text of Texts, with the sample catalog
InitMood == InitWith(MoviePool)
NextMood == \E text \in Texts : \E hour \in Hours : Analyze(text, hour)
SpecMood == InitMood /\ [][NextMood]_vars

\* ------------------------------------------------------------------------
\* The scoring function alone: analyze, then _calculate_mood_score on one
\* row of the catalog with the profile analyze returned
\* ------------------------------------------------------------------------
\* lines 38-41: one pass of the scoring loop, on row k
CalculateMoodScore(k) ==
    /\ ret.op \in {"analyze", "score"}
    /\ ret' = [op |-> "score", profile |-> ret.profile, movie |-> movies_df[k],
               score |-> _calculate_mood_score(movies_df[k], ret.profile).score,
               reason |-> _calculate_mood_score(movies_df[k], ret.profile).reason]
    /\ UNCHANGED <<EMOTION_GENRE_MAP, MOOD_KEYWORDS, TIME_PREFERENCES, movies_df, threads, file_handler>>

InitScore == InitWith(ScoreCatalog)
NextScore ==
    \/ \E text \in ScoreTexts : \E hour \in Hours : Analyze(text, hour)
    \/ \E k \in DOMAIN movies_df : CalculateMoodScore(k)
SpecScore == InitScore /\ [][NextScore]_vars

\* ------------------------------------------------------------------------
\* calculate_similarity_score alone, over GenreLists
\* ------------------------------------------------------------------------
CalculateSimilarity(user_genres, movie_genres) ==
    /\ ret' = [op |-> "similarity", user_genres |-> user_genres,
               movie_genres |-> movie_genres,
               score |-> calculate_similarity_score(user_genres, movie_genres)]
    /\ UNCHANGED <<EMOTION_GENRE_MAP, MOOD_KEYWORDS, TIME_PREFERENCES, movies_df, threads, file_handler>>

InitSimilarity == InitWith(MoviePool)
NextSimilarity ==
    \E user_genres \in GenreLists : \E movie_genres \in GenreLists :
        CalculateSimilarity(user_genres, movie_genres)
SpecSimilarity == InitSimilarity /\ [][NextSimilarity]_vars

\* ------------------------------------------------------------------------
\* The watch history of FileHandler next to the recommenders.  The history
\* calls return nothing and leave `ret`, the record of the last analysis or
\* recommendation, as it is.
\* ------------------------------------------------------------------------
\* the new entry put in front of the list
history_append_Front(watch_history, entry) == <<entry>> \o watch_history

\* file_handler.py line 37: self.watch_history.append(entry)
history_append(watch_history, entry) == Append(watch_history, entry)

\* FileHandler.add_to_watch_history, with the clock reading `now`; line 38
\* writes the list to WATCH_HISTORY_FILE
AddToWatchHistory(movie_id, movie_title, genres, mood, now) ==
    /\ Len(file_handler.watch_history) < MaxHistory
    /\ LET entry == [movie_id |-> movie_id, title |-> movie_title, genres |-> genres,
                     mood |-> mood, timestamp |-> now]
           watch_history == history_append(file_handler.watch_history, entry)
       IN  file_handler' = [watch_history |-> watch_history,
                            WATCH_HISTORY_FILE |-> watch_history]
    /\ UNCHANGED <<EMOTION_GENRE_MAP, MOOD_KEYWORDS, TIME_PREFERENCES, movies_df, ret,
                   threads>>

\* FileHandler.clear_watch_history
ClearWatchHistory ==
    /\ file_handler' = [watch_history |-> <<>>, WATCH_HISTORY_FILE |-> <<>>]
    /\ UNCHANGED <<EMOTION_GENRE_MAP, MOOD_KEYWORDS, TIME_PREFERENCES, movies_df, ret,
                   threads>>

InitHistory == InitWith(HistoryCatalog)
NextHistory ==
    \/ \E text \in HistoryTexts : \E hour \in Hours : Analyze(text, hour)
    \/ \E n \in Ns : GetMoodRecommendations(n)
    \/ \E favorite_genres \in FavoriteGenres : \E n \in Ns :
          GetGenreBasedRecommendations(favorite_genres, n)
    \/ \E movie_id \in MovieIds : \E n \in Ns : GetSimilarMovies(movie_id, n)
    \/ \E k \in DOMAIN movies_df : \E mood \in HistoryMoods : \E now \in Timestamps :
          AddToWatchHistory(movies_df[k].id, Titles[movies_df[k].id],
                            movies_df[k].genres, mood, now)
    \/ ClearWatchHistory
SpecHistory == InitHistory /\ [][NextHistory]_vars

\* ------------------------------------------------------------------------
\* Two analyze calls on two threads over the shared tables.  A thread runs
\* the statements of analyze one at a time; the interpreter switches
\* threads between statements.
\* ------------------------------------------------------------------------
\* lines 27-51: the thread enters analyze and computes its locals
ThreadCall(t, text) ==
    /\ threads[t].pc = "idle"
    /\ threads' = [threads EXCEPT ![t] =
                      [pc |-> "line54", text |-> text, a |-> AnalysisOf(text)]]
    /\ UNCHANGED <<EMOTION_GENRE_MAP, MOOD_KEYWORDS, TIME_PREFERENCES, movies_df, ret, file_handler>>

\* line 54: preferred_genres is bound to the table's list when the primary
\* emotion is a key (aliased), to a fresh default list otherwise
ThreadLine54(t) ==
    LET th == threads[t]
        primary == th.a.primary_emotion
        aliased == primary \in DOMAIN EMOTION_GENRE_MAP
    IN  /\ th.pc = "line54"
        /\ threads' = [threads EXCEPT ![t] =
                          [pc |-> "line57", text |-> th.text, a |-> th.a,
                           aliased |-> aliased,
                           local |-> IF aliased THEN <<>>
                                     ELSE GetPreferredGenres(EMOTION_GENRE_MAP, primary),
                           todo |-> th.a.secondary_emotions]]
        /\ UNCHANGED <<EMOTION_GENRE_MAP, MOOD_KEYWORDS, TIME_PREFERENCES, movies_df, ret, file_handler>>

\* the list the local name preferred_genres refers to
ThreadList(th) ==
    IF th.aliased THEN EMOTION_GENRE_MAP[th.a.primary_emotion] ELSE th.local

\* lines 57-58: one iteration of the loop, one extend
ThreadLine58(t) ==
    LET th == threads[t]
        step == ExtendLoop(EMOTION_GENRE_MAP, th.aliased, th.a.primary_emotion,
                           ThreadList(th), <<Head(th.todo)>>)
    IN  /\ th.pc = "line57"
        /\ th.todo # <<>>
        /\ Len(step.preferred_genres) <= MaxGenreListLen
        /\ EMOTION_GENRE_MAP' = step.table
        /\ threads' = [threads EXCEPT ![t].todo = Tail(th.todo),
                                      ![t].local = IF th.aliased THEN <<>>
                                                   ELSE step.preferred_genres]
        /\ UNCHANGED <<MOOD_KEYWORDS, TIME_PREFERENCES, movies_df, ret, file_handler>>

\* line 61: the loop is over; the list is copied without duplicates
ThreadLine61(t) ==
    LET th == threads[t]
    IN  /\ th.pc = "line57"
        /\ th.todo = <<>>
        /\ threads' = [threads EXCEPT ![t] =
                          [pc |-> "line64", text |-> th.text, a |-> th.a,
                           preferred_genres |-> RemoveDuplicates(ThreadList(th))]]
        /\ UNCHANGED <<EMOTION_GENRE_MAP, MOOD_KEYWORDS, TIME_PREFERENCES, movies_df, ret, file_handler>>

\* lines 64-75: the clock is read and the profile returned
ThreadReturn(t, hour) ==
    LET th == threads[t]
    IN  /\ th.pc = "line64"
        /\ threads' = [threads EXCEPT ![t] =
                          [pc |-> "done",
                           profile |-> Profile(th.text, th.a, th.preferred_genres, hour)]]
        /\ UNCHANGED <<EMOTION_GENRE_MAP, MOOD_KEYWORDS, TIME_PREFERENCES, movies_df, ret, file_handler>>

NextThreads ==
    \E t \in ThreadIds :
        \/ \E text \in ThreadTexts : ThreadCall(t, text)
        \/ ThreadLine54(t)
        \/ ThreadLine58(t)
        \/ ThreadLine61(t)
        \/ \E hour \in Hours : ThreadReturn(t, hour)

SpecThreads == InitMood /\ [][NextThreads]_vars

\* ========================================================================
\* Properties
\* ========================================================================
NoDuplicates(l) == \A i, j \in DOMAIN l : i # j => l[i] # l[j]

RECURSIVE ConcatGenres(_, _)
ConcatGenres(table, emotions) ==
    IF emotions = <<>> THEN <<>>
    ELSE DictGet(table, Head(emotions), <<>>) \o ConcatGenres(table, Tail(emotions))

\* what preferred_genres is when computed from the tables as imported
StartupPreferred(primary, secondaries) ==
    Dedup(DictGet(EmotionGenreMapLiteral, primary, <<"Drama", "Comedy">>)
          \o ConcatGenres(EmotionGenreMapLiteral, secondaries))

\* keyword occurrence in the case-folded text, read off the keyword tables
HasKeywordOf(words, text) == \E i \in DOMAIN words : Contains(words[i], Lower(text))
HitCount(e, text) == CountHits(MoodKeywordsLiteral[e], Lower(text))
NoEmotionKeyword(text) == \A e \in Emotions : ~HasKeywordOf(MoodKeywordsLiteral[e], text)
NoKeywordAtAll(text) ==
    /\ NoEmotionKeyword(text)
    /\ ~HasKeywordOf(high_energy, text) /\ ~HasKeywordOf(low_energy, text)
    /\ ~HasKeywordOf(simplicity_words, text) /\ ~HasKeywordOf(depth_words, text)

\* C1: after any sequence of analyze calls every entry of the emotion->genre
\* table, the keyword table and the time->genre table equals its value at
\* startup.  (Violated: analyze extends the genre list of the primary
\* emotion inside EMOTION_GENRE_MAP.)
C1_TablesUnchanged ==
    /\ EMOTION_GENRE_MAP = EmotionGenreMapLiteral
    /\ MOOD_KEYWORDS = MoodKeywordsLiteral
    /\ TIME_PREFERENCES = TimePreferencesLiteral

\* C2: every analyze call, whatever calls came before it, returns as
\* preferred_genres the startup genre list of the primary emotion followed by
\* the startup lists of the secondary emotions in rank order, later
\* duplicates removed.  (Violated by a call that follows a call with the
\* same primary emotion.)
C2_PreferredFromStartupTables ==
    ret.op = "analyze" =>
        ret.profile.preferred_genres =
            StartupPreferred(ret.profile.primary_emotion, ret.profile.secondary_emotions)

\* C3: the preferred_genres list returned by analyze holds no genre twice,
\* for every text and after any sequence of earlier calls.
C3_NoDuplicateGenres ==
    ret.op = "analyze" => NoDuplicates(ret.profile.preferred_genres)

\* the call had secondary emotions and the list it read from the table held
\* duplicates, which the returned list does not repeat
C3_Witness ==
    /\ ret.op = "analyze"
    /\ ret.profile.secondary_emotions # <<>>
    /\ ~NoDuplicates(EMOTION_GENRE_MAP[ret.profile.primary_emotion])

\* C4: of two analyze calls whose statements interleave, each returns the
\* profile it returns when run alone from the startup state (the clock
\* reading aside).  (Violated: one call reads the list the other call has
\* extended.)
C4_ConcurrentCallsIndependent ==
    \A t \in ThreadIds :
        threads[t].pc = "done" =>
            LET alone == AnalyzeText(threads[t].profile.raw_text, MoodKeywordsLiteral)
                p == threads[t].profile
            IN  /\ p.primary_emotion = alone.primary_emotion
                /\ p.secondary_emotions = alone.secondary_emotions
                /\ p.energy_level = alone.energy_level
                /\ p.complexity = alone.complexity
                /\ p.preferred_genres =
                       StartupPreferred(alone.primary_emotion, alone.secondary_emotions)

\* C5: analyze returns a complete profile for every text, the empty string
\* included: primary_emotion is one of the 15 table emotions, energy_level
\* and complexity are low, medium or high, there are at most 2 secondary
\* emotions, and raw_text is the input unmodified.
C5_CompleteProfile ==
    ret.op = "analyze" =>
        /\ ret.profile.primary_emotion \in DOMAIN MoodKeywordsLiteral
        /\ Cardinality(DOMAIN MoodKeywordsLiteral) = 15
        /\ ret.profile.energy_level \in Levels
        /\ ret.profile.complexity \in Levels
        /\ Len(ret.profile.secondary_emotions) <= 2
        /\ ret.profile.raw_text = ret.text
        /\ DOMAIN ret.profile = {"primary_emotion", "secondary_emotions", "energy_level",
                                 "preferred_genres", "complexity", "time_genres", "raw_text"}

\* analyze has returned for the empty string
C5_Witness == ret.op = "analyze" /\ ret.text = "" /\ ret.profile.raw_text = ""

\* C6: a text in which (after case folding) no emotion keyword occurs gets
\* primary_emotion bored and no secondary emotions; a text with no emotion,
\* energy or complexity keyword at all gets energy medium and complexity
\* medium.
C6_Fallbacks ==
    ret.op = "analyze" =>
        /\ NoEmotionKeyword(ret.text) =>
              /\ ret.profile.primary_emotion = "bored"
              /\ ret.profile.secondary_emotions = <<>>
        /\ NoKeywordAtAll(ret.text) =>
              /\ ret.profile.energy_level = "medium"
              /\ ret.profile.complexity = "medium"

\* analyze has returned for the empty text, which has no keyword at all
C6_Witness == ret.op = "analyze" /\ ret.text = "" /\ NoKeywordAtAll(ret.text)

\* C7: a text that contains (as substrings of the case-folded text) keywords
\* of exactly one emotion's list gets that emotion as primary_emotion.
\* Matching is by substring: "unhappy" contains "happy", hits two lists and
\* so is not such a text.
C7_SingleEmotion ==
    ret.op = "analyze" =>
        /\ \A e \in Emotions :
              (/\ HasKeywordOf(MoodKeywordsLiteral[e], ret.text)
               /\ \A f \in Emotions \ {e} : ~HasKeywordOf(MoodKeywordsLiteral[f], ret.text))
              => ret.profile.primary_emotion = e
        /\ ret.text = "unhappy" =>
              /\ HasKeywordOf(MoodKeywordsLiteral["happy"], ret.text)
              /\ HasKeywordOf(MoodKeywordsLiteral["sad"], ret.text)

\* analyze has returned for a text that hits the keyword list of tired only
C7_Witness ==
    /\ ret.op = "analyze"
    /\ HasKeywordOf(MoodKeywordsLiteral["tired"], ret.text)
    /\ \A f \in Emotions \ {"tired"} : ~HasKeywordOf(MoodKeywordsLiteral[f], ret.text)
    /\ ret.profile.primary_emotion = "tired"

\* C8: analyze("I'm stressed from exams and tired") returns stressed, low,
\* low; and so does every text in which stressed has the highest hit count
\* of all emotions (more hits than any other emotion) and which contains a
\* low-energy keyword but no high-energy, simplicity or depth keyword.
C8_StressedLowLow ==
    ret.op = "analyze" =>
        LET stressedLowLow ==
                /\ ret.profile.primary_emotion = "stressed"
                /\ ret.profile.energy_level = "low"
                /\ ret.profile.complexity = "low"
        IN  /\ ret.text = ExampleText => stressedLowLow
            /\ (/\ \A f \in Emotions \ {"stressed"} :
                       HitCount("stressed", ret.text) > HitCount(f, ret.text)
                /\ HasKeywordOf(low_energy, ret.text)
                /\ ~HasKeywordOf(high_energy, ret.text)
                /\ ~HasKeywordOf(simplicity_words, ret.text)
                /\ ~HasKeywordOf(depth_words, ret.text))
               => stressedLowLow

\* analyze has returned for the example text
C8_Witness ==
    /\ ret.op = "analyze"
    /\ ret.text = ExampleText
    /\ ret.profile.primary_emotion = "stressed"
    /\ ret.profile.secondary_emotions = <<"tired">>

\* the rows a recommender call chooses from, as the claim names them
EligibleCandidates ==
    IF ret.op = "mood"
    THEN LET matches == SelectSeq(movies_df,
                            LAMBDA m : m.complexity = ret.profile.complexity)
         IN  IF Len(matches) >= ret.n THEN matches ELSE movies_df
    ELSE IF ret.op = "genre"
    THEN LET matches == filter_by_genres(movies_df, ret.favorite_genres)
         IN  IF Len(matches) > 0 THEN matches ELSE movies_df
    ELSE IF \E k \in DOMAIN movies_df : movies_df[k].id = ret.movie_id
    THEN SelectSeq(movies_df, LAMBDA m : m.id # ret.movie_id)
    ELSE <<>>

\* the eligible rows with the score the recommender gives them
EligibleScored ==
    IF ret.op = "mood" THEN MoodScored(movies_df, ret.profile, ret.n)
    ELSE IF ret.op = "genre" /\ ret.favorite_genres = <<>>
    THEN TopRated(movies_df, Len(movies_df))
    ELSE IF ret.op = "genre" THEN GenreScored(movies_df, ret.favorite_genres)
    ELSE IF get_movie_by_id(movies_df, ret.movie_id) = None THEN <<>>
    ELSE SimilarScored(movies_df, ret.movie_id)

IsRecommendation == ret.op \in {"mood", "genre", "similar"}

\* C9: each recommender returns exactly min(n, number of eligible
\* candidates) entries, every entry an eligible candidate and no candidate
\* twice.  The candidates are the complexity matches when there are at least
\* n of them and the full catalog otherwise (mood); the rows filter_by_genres
\* keeps, or the full catalog when it keeps none (genre-based); the rows
\* other than the target (similar; with no target in the catalog there are
\* none).
C9_ResultLength ==
    IsRecommendation =>
        LET eligible == EligibleCandidates
            results == ret.results
        IN  /\ Len(results) = (IF ret.n < Len(eligible) THEN ret.n ELSE Len(eligible))
            /\ \A k \in DOMAIN results : results[k].movie \in Range(eligible)
            /\ \A i, j \in DOMAIN results :
                  i # j => results[i].movie.id # results[j].movie.id

\* a mood call asked for more movies than the catalog has and got them all
C9_Witness ==
    /\ ret.op = "mood"
    /\ ret.n > Len(movies_df)
    /\ Len(ret.results) = Len(movies_df)
    /\ Len(movies_df) >= 2

\* C10: the returned sequence is in non-increasing score order, and no
\* candidate left out has a score strictly greater than a returned one.
C10_TopNByScore ==
    IsRecommendation =>
        LET results == ret.results
            scored == EligibleScored
        IN  /\ \A i, j \in DOMAIN results :
                  i < j => ~FGt(results[j].score, results[i].score)
            /\ \A c \in DOMAIN scored :
                  (\A k \in DOMAIN results : results[k].movie.id # scored[c].movie.id)
                  => \A k \in DOMAIN results : ~FGt(scored[c].score, results[k].score)

\* a call returned two movies of different score and left a candidate out
C10_Witness ==
    /\ IsRecommendation
    /\ Len(ret.results) >= 2
    /\ FGt(ret.results[1].score, ret.results[2].score)
    /\ Len(ret.results) < Len(EligibleScored)


\* the catalog rows whose complexity is the profile's
ComplexityMatches ==
    {k \in DOMAIN movies_df : movies_df[k].complexity = ret.profile.complexity}

\* C11: get_mood_recommendations restricts the candidates to the movies of
\* the profile's complexity exactly when at least n catalog movies have it.
\* With at least n such movies every returned movie has the profile's
\* complexity; with fewer the full catalog is scored: min(n, catalog size)
\* movies come back and no catalog movie left out, of whatever complexity,
\* scores strictly higher than a returned one.
C11_ComplexityRestriction ==
    ret.op = "mood" =>
        LET results == ret.results
            returned == {results[k].movie.id : k \in DOMAIN results}
        IN  /\ Cardinality(ComplexityMatches) >= ret.n =>
                  /\ \A k \in DOMAIN results :
                        results[k].movie.complexity = ret.profile.complexity
                  /\ Len(results) = ret.n
            /\ Cardinality(ComplexityMatches) < ret.n =>
                  /\ Len(results) = (IF ret.n < Len(movies_df) THEN ret.n
                                     ELSE Len(movies_df))
                  /\ \A c \in DOMAIN movies_df : movies_df[c].id \notin returned =>
                        \A k \in DOMAIN results :
                            ~FGt(_calculate_mood_score(movies_df[c], ret.profile).score,
                                 results[k].score)

\* fewer than n movies (but some) have the profile's complexity, and a movie
\* of another complexity was returned ahead of one that has it
C11_Witness ==
    /\ ret.op = "mood"
    /\ ComplexityMatches # {}
    /\ Cardinality(ComplexityMatches) < ret.n
    /\ \E i, j \in DOMAIN ret.results :
          /\ i < j
          /\ ret.results[i].movie.complexity # ret.profile.complexity
          /\ ret.results[j].movie.complexity = ret.profile.complexity

\* exactly n movies have the profile's complexity, the catalog holds others,
\* and only the n matching ones were returned
C11_WitnessBoundary ==
    /\ ret.op = "mood"
    /\ ret.n >= 1
    /\ Cardinality(ComplexityMatches) = ret.n
    /\ Len(movies_df) > ret.n
    /\ \A k \in DOMAIN ret.results :
          ret.results[k].movie.complexity = ret.profile.complexity


\* how many of the tags are in the list of genres
CountIn(tags, genres) == Cardinality({i \in DOMAIN tags : tags[i] \in Range(genres)})

\* the terms of the mood score as the scoring table states them, for the
\* movie and the profile of the last scoring call
BaseTerm == FMul(ret.movie.rating, FInt(5))
GenreTerm ==
    FMul(Frac(CountIn(Split(ret.movie.genres), ret.profile.preferred_genres),
              Len(Split(ret.movie.genres))), FInt(30))
TimeTerm == FInt(5 * CountIn(Split(ret.movie.genres), ret.profile.time_genres))
ComplexityTerm ==
    IF ret.movie.complexity = ret.profile.complexity THEN FInt(15) ELSE FInt(0)
\* "has Action" read as the code tests it, on the genre string of the row
EnergyTerm ==
    IF ret.profile.energy_level = "low" /\ ret.movie.complexity = "low" THEN FInt(10)
    ELSE IF ret.profile.energy_level = "high" /\ Contains("Action", ret.movie.genres)
    THEN FInt(10) ELSE FInt(0)

NineDramaHighCase ==
    /\ ret.op = "score"
    /\ ret.movie.rating = FInt(9)
    /\ ret.movie.genres = "Drama"
    /\ ret.movie.complexity = "high"
    /\ ret.profile.complexity = "high"
    /\ \E i \in DOMAIN ret.profile.preferred_genres :
          ret.profile.preferred_genres[i] = "Drama"

GenrePhrase == "Perfect Drama for " \o ret.profile.primary_emotion \o " mood"

\* C13 as stated: such a movie gets score 90 and a reason that contains both
\* the genre-match phrase and 'Intellectually engaging', whatever the rest
\* of the profile.  (Violated in the afternoon and the evening, when Drama
\* is a genre of the time of day.)
C13_NineDramaHighScores90 ==
    NineDramaHighCase =>
        /\ ret.score = FInt(90)
        /\ Contains(GenrePhrase, ret.reason)
        /\ Contains("Intellectually engaging", ret.reason)

\* C13 amended: when the profile's time_genres do not hold Drama the movie
\* gets score 90 and a reason with both phrases; when they hold Drama it
\* gets score 95 and the reason is the genre-match phrase followed by
\* 'Great for this time of day', without the complexity phrase.
C13_NineDramaHighByTimeOfDay ==
    NineDramaHighCase =>
        IF \E i \in DOMAIN ret.profile.time_genres : ret.profile.time_genres[i] = "Drama"
        THEN /\ ret.score = FInt(95)
             /\ ret.reason = GenrePhrase \o Separator \o "Great for this time of day"
             /\ ~Contains("Intellectually engaging", ret.reason)
        ELSE /\ ret.score = FInt(90)
             /\ Contains(GenrePhrase, ret.reason)
             /\ Contains("Intellectually engaging", ret.reason)

\* the movie was scored at a time of day without Drama and got 90 and both
\* phrases
C13_Witness ==
    /\ NineDramaHighCase
    /\ \A i \in DOMAIN ret.profile.time_genres : ret.profile.time_genres[i] # "Drama"
    /\ ret.score = FInt(90)
    /\ ret.reason = GenrePhrase \o Separator \o "Intellectually engaging"

\* the movie was scored at a time of day with Drama and got 95
C13_WitnessDramaTime ==
    /\ NineDramaHighCase
    /\ \E i \in DOMAIN ret.profile.time_genres : ret.profile.time_genres[i] = "Drama"
    /\ ret.score = FInt(95)


\* the reason fragments the last scoring call triggered, in the order genre
\* match, time of day, complexity, energy, with the texts of the scoring table
TriggeredFragments ==
    (IF FGt(GenreTerm, FInt(0))
     THEN <<"Perfect " \o Head(Split(ret.movie.genres)) \o " for "
            \o ret.profile.primary_emotion \o " mood">> ELSE <<>>)
    \o (IF FGt(TimeTerm, FInt(0)) THEN <<"Great for this time of day">> ELSE <<>>)
    \o (IF ComplexityTerm = FInt(15) /\ ret.profile.complexity = "low"
        THEN <<"Easy to follow">>
        ELSE IF ComplexityTerm = FInt(15) /\ ret.profile.complexity = "high"
        THEN <<"Intellectually engaging">> ELSE <<>>)
    \o (IF EnergyTerm = FInt(10) /\ ret.profile.energy_level = "low"
        THEN <<"Perfect for relaxing">>
        ELSE IF EnergyTerm = FInt(10) THEN <<"High-energy entertainment">> ELSE <<>>)

\* C14: the reason of a mood score is the first two triggered fragments
\* joined by the separator (the first alone when only one triggered); it is
\* never empty, and it is 'Highly rated {first genre}' exactly when no
\* fragment triggered.
C14_ReasonFirstTwoFragments ==
    ret.op = "score" =>
        LET fragments == TriggeredFragments
            fallback == "Highly rated " \o Head(Split(ret.movie.genres))
        IN  /\ ret.reason # ""
            /\ (ret.reason = fallback) <=> (fragments = <<>>)
            /\ Len(fragments) = 1 => ret.reason = fragments[1]
            /\ Len(fragments) >= 2 =>
                  ret.reason = fragments[1] \o Separator \o fragments[2]

\* all four fragments triggered and the reason carries the first two only
C14_Witness ==
    /\ ret.op = "score"
    /\ Len(TriggeredFragments) = 4
    /\ ret.reason = TriggeredFragments[1] \o Separator \o "Great for this time of day"

\* a movie of medium complexity got the 15 points of a medium profile but no
\* fragment, and its reason is the fallback
C14_WitnessFallback ==
    /\ ret.op = "score"
    /\ TriggeredFragments = <<>>
    /\ ComplexityTerm = FInt(15)
    /\ ret.reason = "Highly rated " \o Head(Split(ret.movie.genres))


\* the row number of the movie in the catalog
CatalogPosition(movie) == CHOOSE k \in DOMAIN movies_df : movies_df[k].id = movie.id

\* C15: in the result of get_mood_recommendations two movies of equal score
\* appear in their catalog order, and the ranked list is the one function of
\* catalog order, profile and n that a stable descending sort gives.
\* (Violated: sort_values is called with its default sort kind, which does
\* not keep the order of equal keys.)
C15_TiesInCatalogOrder ==
    ret.op = "mood" =>
        LET results == ret.results
            scored == MoodScored(movies_df, ret.profile, ret.n)
        IN  /\ \A i, j \in DOMAIN results :
                  (i < j /\ results[i].score = results[j].score)
                  => CatalogPosition(results[i].movie) < CatalogPosition(results[j].movie)
            /\ results = Take(SortDescStable(scored,
                                  [k \in DOMAIN scored |-> scored[k].score]), ret.n)


\* C16: for a movie with rating in [0, 10] and at least one genre, and any
\* profile, the time-of-day bonus (what the score holds beyond the base,
\* genre, complexity and energy terms) is between 0 and 10, and the score is
\* at most 115.  (Violated: the bonus is 5 per matching genre with no cap.)
C16_TimeBonusAtMost10 ==
    (/\ ret.op = "score"
     /\ ~FGt(FInt(0), ret.movie.rating) /\ ~FGt(ret.movie.rating, FInt(10))
     /\ ret.movie.genres # "")
    => LET rest == FAdd(BaseTerm, FAdd(GenreTerm, FAdd(ComplexityTerm, EnergyTerm)))
       IN  /\ ~FGt(rest, ret.score)
           /\ ~FGt(ret.score, FAdd(rest, FInt(10)))
           /\ ~FGt(ret.score, FInt(115))

\* the score stays within 115
C16_ScoreAtMost115 == ret.op = "score" => ~FGt(ret.score, FInt(115))


\* C17: get_genre_based_recommendations with no favorite genres returns the
\* top n catalog movies by rating, highest first (min(n, catalog size)
\* distinct movies, none left out rated higher than one returned), each
\* with score rating*10 and reason 'Highly rated'.
C17_EmptyFavoritesTopRated ==
    (ret.op = "genre" /\ ret.favorite_genres = <<>>) =>
        LET results == ret.results
            returned == {results[k].movie.id : k \in DOMAIN results}
        IN  /\ Len(results) = (IF ret.n < Len(movies_df) THEN ret.n ELSE Len(movies_df))
            /\ \A k \in DOMAIN results :
                  /\ results[k].movie \in Range(movies_df)
                  /\ results[k].score = FMul(results[k].movie.rating, FInt(10))
                  /\ results[k].reason = "Highly rated"
            /\ \A i, j \in DOMAIN results :
                  i < j => /\ results[i].movie.id # results[j].movie.id
                           /\ ~FGt(results[j].movie.rating, results[i].movie.rating)
            /\ \A c \in DOMAIN movies_df : movies_df[c].id \notin returned =>
                  \A k \in DOMAIN results :
                      ~FGt(movies_df[c].rating, results[k].movie.rating)

\* the call returned two movies of different rating, the best first and not
\* the first row of the catalog, and left a movie out
C17_Witness ==
    /\ ret.op = "genre" /\ ret.favorite_genres = <<>>
    /\ Len(ret.results) = 2 /\ Len(movies_df) = 3
    /\ FGt(ret.results[1].movie.rating, ret.results[2].movie.rating)
    /\ ret.results[1].movie.id # movies_df[1].id
    /\ ret.results[1].score = FMul(ret.results[1].movie.rating, FInt(10))


\* the movie has a genre tag equal to one of the favorite genres
SharesTag(movie, favorite_genres) ==
    Range(Split(movie.genres)) \cap Range(favorite_genres) # {}

\* C18: with favorite genres given and at least one catalog movie sharing a
\* genre tag with them, every movie get_genre_based_recommendations returns
\* has a genre tag equal to a favorite genre.  (Violated: filter_by_genres
\* looks for the favorite genre inside the joined genre string, so 'Music'
\* also keeps a 'Musical'.)
C18_ResultsShareATag ==
    (/\ ret.op = "genre"
     /\ ret.favorite_genres # <<>>
     /\ \E c \in DOMAIN movies_df : SharesTag(movies_df[c], ret.favorite_genres))
    => \A k \in DOMAIN ret.results :
          SharesTag(ret.results[k].movie, ret.favorite_genres)


\* C19: with favorite genres given and no catalog movie sharing a genre tag
\* with them, get_genre_based_recommendations falls back to the full
\* catalog: the result is not empty when the catalog is not empty and
\* n >= 1, and it lists the n highest-rated movies, highest first.
\* (Violated: a movie that merely contains a favorite genre as a substring
\* of its genre string keeps the fallback from being taken.)
C19_NoOverlapFallsBackToTopRated ==
    (/\ ret.op = "genre"
     /\ ret.favorite_genres # <<>>
     /\ \A c \in DOMAIN movies_df : ~SharesTag(movies_df[c], ret.favorite_genres))
    => LET results == ret.results
           returned == {results[k].movie.id : k \in DOMAIN results}
       IN  /\ (Len(movies_df) > 0 /\ ret.n >= 1) => results # <<>>
           /\ Len(results) = (IF ret.n < Len(movies_df) THEN ret.n ELSE Len(movies_df))
           /\ \A i, j \in DOMAIN results :
                 i < j => ~FGt(results[j].movie.rating, results[i].movie.rating)
           /\ \A c \in DOMAIN movies_df : movies_df[c].id \notin returned =>
                 \A k \in DOMAIN results :
                     ~FGt(movies_df[c].rating, results[k].movie.rating)


\* Jaccard overlap of the favorite genres and the tags of the movie, as a
\* percentage
JaccardPercent(favorite_genres, movie) ==
    LET a == Range(favorite_genres)
        b == Range(Split(movie.genres))
    IN  Frac(100 * Cardinality(a \cap b), Cardinality(a \cup b))

\* C20: with favorite genres given, every result of
\* get_genre_based_recommendations has score Jaccard*0.7 + rating*3, the
\* Jaccard overlap of the favorite genres and the movie's genres taken as a
\* percentage, and the reason 'Matches your taste in ' followed by the
\* first two favorite genres joined by ', ' (the one genre when one is given).
C20_GenreScoreAndReason ==
    (ret.op = "genre" /\ ret.favorite_genres # <<>>) =>
        \A k \in DOMAIN ret.results :
            /\ ret.results[k].score =
                  FAdd(FMul(JaccardPercent(ret.favorite_genres, ret.results[k].movie),
                            Frac(7, 10)),
                       FMul(ret.results[k].movie.rating, FInt(3)))
            /\ ret.results[k].reason =
                  "Matches your taste in "
                  \o (IF Len(ret.favorite_genres) = 1 THEN ret.favorite_genres[1]
                      ELSE ret.favorite_genres[1] \o ", " \o ret.favorite_genres[2])

\* three favorite genres were given and a returned movie shares two of its
\* three tags with them: overlap 50, and the reason names two genres
C20_Witness ==
    /\ ret.op = "genre" /\ Len(ret.favorite_genres) = 3
    /\ \E k \in DOMAIN ret.results :
          /\ JaccardPercent(ret.favorite_genres, ret.results[k].movie) = FInt(50)
          /\ ret.results[k].score = FAdd(FInt(35), FMul(ret.results[k].movie.rating, FInt(3)))
          /\ ret.results[k].reason = "Matches your taste in Horror, Thriller"

\* one favorite genre was given and the reason names it alone
C20_WitnessOneFavorite ==
    /\ ret.op = "genre" /\ Len(ret.favorite_genres) = 1
    /\ \E k \in DOMAIN ret.results :
          /\ ret.results[k].reason = "Matches your taste in Music"
          /\ FGt(JaccardPercent(ret.favorite_genres, ret.results[k].movie), FInt(0))


\* the catalog holds a row with the id of the last get_similar_movies call
TargetInCatalog == \E k \in DOMAIN movies_df : movies_df[k].id = ret.movie_id

\* C21: get_similar_movies with a movie id that is not in the catalog
\* returns the empty list, for every catalog and n.
C21_UnknownIdGivesEmpty ==
    (ret.op = "similar" /\ ~TargetInCatalog) => ret.results = <<>>

\* the call asked for movies similar to an id the catalog does not hold,
\* with n >= 1 and other movies in the catalog, and got none
C21_Witness ==
    /\ ret.op = "similar" /\ ~TargetInCatalog
    /\ ret.n >= 1 /\ Len(movies_df) >= 2
    /\ ret.results = <<>>


\* the row of the catalog with the id of the last get_similar_movies call
TargetRow == movies_df[CHOOSE k \in DOMAIN movies_df : movies_df[k].id = ret.movie_id]

\* C22: for an id the catalog holds, get_similar_movies never returns the
\* target itself; every entry is another movie of the catalog, with score
\* Jaccard(target genres, movie genres)*0.8 + rating*2 (Jaccard as a
\* percentage) and the reason 'Similar style and genre'.
C22_SimilarEntries ==
    (ret.op = "similar" /\ TargetInCatalog) =>
        \A k \in DOMAIN ret.results :
            /\ ret.results[k].movie.id # ret.movie_id
            /\ ret.results[k].movie \in Range(movies_df)
            /\ ret.results[k].score =
                  FAdd(FMul(JaccardPercent(Split(TargetRow.genres), ret.results[k].movie),
                            Frac(8, 10)),
                       FMul(ret.results[k].movie.rating, FInt(2)))
            /\ ret.results[k].reason = "Similar style and genre"

\* every other movie of a catalog of three was returned, one of them
\* sharing some but not all genres with the target
C22_Witness ==
    /\ ret.op = "similar" /\ TargetInCatalog
    /\ Len(movies_df) = 3 /\ Len(ret.results) = 2
    /\ \E k \in DOMAIN ret.results :
          LET j == JaccardPercent(Split(TargetRow.genres), ret.results[k].movie)
          IN  FGt(j, FInt(0)) /\ FGt(FInt(100), j)


\* C23: calculate_similarity_score(A, B) is 100 * |A n B| / |A u B| over the
\* two sets of genres (33.3 for [Action, Drama] and [Drama, Thriller]), 0
\* when either list is empty, the same with the arguments swapped, within
\* [0, 100], and 100 exactly when the two sets are equal and not empty.
C23_JaccardProperties ==
    ret.op = "similarity" =>
        LET a == Range(ret.user_genres)
            b == Range(ret.movie_genres)
        IN  /\ (a # {} /\ b # {}) =>
                  ret.score = Frac(100 * Cardinality(a \cap b), Cardinality(a \cup b))
            /\ (ret.user_genres = <<>> \/ ret.movie_genres = <<>>) => ret.score = FInt(0)
            /\ (ret.user_genres = <<"Action", "Drama">>
                /\ ret.movie_genres = <<"Drama", "Thriller">>) => ret.score = Frac(100, 3)
            /\ ret.score = calculate_similarity_score(ret.movie_genres, ret.user_genres)
            /\ ~FGt(FInt(0), ret.score) /\ ~FGt(ret.score, FInt(100))
            /\ (ret.score = FInt(100)) <=> (a = b /\ a # {})

\* the function was applied to the lists of the example
C23_Witness ==
    /\ ret.op = "similarity"
    /\ ret.user_genres = <<"Action", "Drama">>
    /\ ret.movie_genres = <<"Drama", "Thriller">>
    /\ ret.score = Frac(100, 3)

\* two different lists with the same set of genres score 100
C23_WitnessEqualSets ==
    /\ ret.op = "similarity"
    /\ ret.user_genres # ret.movie_genres
    /\ ret.score = FInt(100)


Columns == {"id", "genres", "rating", "complexity"}

\* C24: a call of get_mood_recommendations, get_genre_based_recommendations
\* or get_similar_movies leaves data_manager.movies_df as it was: the same
\* rows in the same order with the same columns, on the fallback paths too.
C24_CatalogUnchanged ==
    [][(ret'.op \in {"mood", "genre", "similar"}) => movies_df' = movies_df]_vars

\* the same, as seen in the state a recommender call leaves: the rows have
\* the columns of the catalog and no score or reason column
C24_NoScoreColumn ==
    \A k \in DOMAIN movies_df : DOMAIN movies_df[k] = Columns

\* a genre-based call took the fallback to the full catalog and returned
\* scored movies, and the rows of the catalog have no score column
C24_Witness ==
    /\ ret.op = "genre" /\ ret.favorite_genres # <<>>
    /\ filter_by_genres(movies_df, ret.favorite_genres) = <<>>
    /\ Len(ret.results) >= 2
    /\ \A k \in DOMAIN movies_df : DOMAIN movies_df[k] = Columns

\* a mood call scored the full catalog, fewer than n rows having the
\* profile's complexity, and the rows of the catalog have no score column
C24_WitnessMood ==
    /\ ret.op = "mood"
    /\ Cardinality(ComplexityMatches) < ret.n
    /\ Len(ret.results) >= 2
    /\ \A k \in DOMAIN movies_df : DOMAIN movies_df[k] = Columns


\* s is an initial segment of t
IsPrefix(s, t) == Len(s) <= Len(t) /\ SubSeq(t, 1, Len(s)) = s

\* C25 as stated: the watch history is append-only; after any FileHandler
\* operation the history has the earlier history as a prefix, so every
\* entry ever added is still there, in the order of adding.  (Violated by
\* clear_watch_history.)
C25_HistoryAppendOnly ==
    [][IsPrefix(file_handler.watch_history, file_handler'.watch_history)]_vars

\* C25 amended: every operation other than clear_watch_history leaves the
\* earlier history as a prefix of the later one, add_to_watch_history
\* putting exactly one entry at its end; clear_watch_history empties it.
C25_AppendOnlyUntilCleared ==
    [][/\ ClearWatchHistory => file_handler'.watch_history = <<>>
       /\ ~ClearWatchHistory =>
             \/ file_handler'.watch_history = file_handler.watch_history
             \/ /\ Len(file_handler'.watch_history) = Len(file_handler.watch_history) + 1
                /\ IsPrefix(file_handler.watch_history, file_handler'.watch_history)
       /\ file_handler'.WATCH_HISTORY_FILE = file_handler'.watch_history]_vars

\* two different entries were added and stand in the order of adding,
\* Frozen after The Matrix
C25_Witness ==
    /\ Len(file_handler.watch_history) = 2
    /\ file_handler.watch_history[1].title = "The Matrix"
    /\ file_handler.watch_history[2].title = "Frozen"
    /\ file_handler.WATCH_HISTORY_FILE = file_handler.watch_history


\* the call a recommendation record stands for: the recommender and its
\* arguments, without what it returned
CallOf(r) == [f \in (DOMAIN r) \ {"results"} |-> r[f]]

Recommenders == {"mood", "genre", "similar"}

WatchedIds == {file_handler.watch_history[i].movie_id : i \in DOMAIN file_handler.watch_history}

\* C26: recommendation results do not depend on the watch history: when a
\* recommender is called again with the same profile / genres / id and n on
\* the same catalog, whatever add and clear operations came in between and
\* whatever the history now holds, it returns what it returned before.
C26_ResultsIgnoreHistory ==
    [][(/\ ret.op \in Recommenders
        /\ ret'.op \in Recommenders
        /\ CallOf(ret') = CallOf(ret)
        /\ movies_df' = movies_df)
       => ret'.results = ret.results]_vars

\* a recommender has returned a movie that is in the watch history
C26_Witness ==
    /\ ret.op \in Recommenders
    /\ WatchedIds # {}
    /\ \E i \in DOMAIN ret.results : ret.results[i].movie.id \in WatchedIds

\* the same for each of the three recommenders, with a full history
C26_WitnessEach ==
    /\ ret.op \in Recommenders
    /\ Len(file_handler.watch_history) = MaxHistory
    /\ Len(ret.results) = Len(movies_df)


\* the place of emotion e in the keyword table
TablePlace(e) == CHOOSE i \in DOMAIN EmotionOrder : EmotionOrder[i] = e

\* C27: secondary_emotions never contains the primary emotion, has at most
\* 2 entries, holds only emotions with a hit count above 0, is ordered by
\* non-increasing hit count with equal counts in keyword-table order, and no
\* left-out non-primary emotion has a strictly higher hit count than an
\* included one.
C27_SecondaryEmotions ==
    ret.op = "analyze" =>
        LET sec == ret.profile.secondary_emotions
            primary == ret.profile.primary_emotion
        IN  /\ primary \notin Range(sec)
            /\ Len(sec) <= 2
            /\ \A i \in DOMAIN sec : sec[i] \in Emotions /\ HitCount(sec[i], ret.text) > 0
            /\ \A i, j \in DOMAIN sec :
                  i < j => \/ HitCount(sec[i], ret.text) > HitCount(sec[j], ret.text)
                           \/ /\ HitCount(sec[i], ret.text) = HitCount(sec[j], ret.text)
                              /\ TablePlace(sec[i]) < TablePlace(sec[j])
            /\ \A e \in Emotions \ ({primary} \cup Range(sec)) :
                  \A i \in DOMAIN sec : HitCount(e, ret.text) <= HitCount(sec[i], ret.text)

\* the sort has moved a later emotion of the table in front of an earlier one
C27_Witness ==
    /\ ret.op = "analyze"
    /\ Len(ret.profile.secondary_emotions) = 2
    /\ TablePlace(ret.profile.secondary_emotions[1])
          > TablePlace(ret.profile.secondary_emotions[2])
    /\ HitCount(ret.profile.secondary_emotions[1], ret.text)
          > HitCount(ret.profile.secondary_emotions[2], ret.text)

\* a third non-primary emotion with a hit was left out
C27_WitnessOmitted ==
    /\ ret.op = "analyze"
    /\ Len(ret.profile.secondary_emotions) = 2
    /\ \E e \in Emotions \ ({ret.profile.primary_emotion}
                              \cup Range(ret.profile.secondary_emotions)) : HitCount(e, ret.text) > 0

\* the energy keywords found in the text of the last call
HighCount == CountHits(high_energy, Lower(ret.text))
LowCount == CountHits(low_energy, Lower(ret.text))

\* C28: energy_level is 'high' exactly when more high-energy keywords than
\* low-energy keywords are found in the text, 'low' exactly when more
\* low-energy keywords are found, and 'medium' when the counts are equal,
\* both zero included.
C28_EnergyLevel ==
    ret.op = "analyze" =>
        /\ ret.profile.energy_level = "high" <=> HighCount > LowCount
        /\ ret.profile.energy_level = "low" <=> LowCount > HighCount
        /\ ret.profile.energy_level = "medium" <=> HighCount = LowCount

\* keywords of both lists were found in equal number
C28_Witness ==
    /\ ret.op = "analyze"
    /\ HighCount = LowCount /\ HighCount > 0
    /\ ret.profile.energy_level = "medium"

\* keywords of both lists were found and one list won
C28_WitnessUnequal ==
    /\ ret.op = "analyze"
    /\ LowCount > 0 /\ HighCount > LowCount
    /\ ret.profile.energy_level = "high"

AnySimplicityWord ==
    \E i \in DOMAIN simplicity_words : Contains(simplicity_words[i], Lower(ret.text))
AnyDepthWord ==
    \E i \in DOMAIN depth_words : Contains(depth_words[i], Lower(ret.text))

\* C29: complexity is decided in strict priority order: 'low' if any
\* simplicity keyword occurs, a depth keyword notwithstanding; otherwise
\* 'high' if any depth keyword occurs; otherwise 'low' for energy_level low
\* and 'medium' for energy_level medium or high.  Energy alone never gives
\* 'high'.
C29_ComplexityPriority ==
    ret.op = "analyze" =>
        /\ ret.profile.complexity =
              (IF AnySimplicityWord THEN "low"
               ELSE IF AnyDepthWord THEN "high"
               ELSE IF ret.profile.energy_level = "low" THEN "low"
               ELSE "medium")
        /\ ret.profile.complexity = "high" => AnyDepthWord

\* a simplicity word and a depth word in one text
C29_Witness ==
    /\ ret.op = "analyze"
    /\ AnySimplicityWord /\ AnyDepthWord
    /\ ret.profile.complexity = "low"

\* a depth word against low energy, and a simplicity word against high energy
C29_WitnessDepthOverEnergy ==
    /\ ret.op = "analyze"
    /\ AnyDepthWord /\ ret.profile.energy_level = "low"
    /\ ret.profile.complexity = "high"


\* the energy-alignment bonus with "has Action" read as tag membership
EnergyTermByTag ==
    IF ret.profile.energy_level = "low" /\ ret.movie.complexity = "low" THEN FInt(10)
    ELSE IF ret.profile.energy_level = "high" /\ "Action" \in Range(Split(ret.movie.genres))
    THEN FInt(10) ELSE FInt(0)

\* C30 as stated: the energy-alignment bonus is at most 10 and its branches
\* are exclusive: +10 iff energy is low and the movie's complexity is low,
\* +10 iff energy is high and 'Action' is one of the movie's genre tags (tag
\* membership, not a substring of the joined genre string), nothing for
\* medium energy.  (Violated: the code tests the joined genre string.)
C30_EnergyBonusByTag ==
    ret.op = "score" =>
        ret.score = FAdd(BaseTerm, FAdd(GenreTerm, FAdd(TimeTerm,
                        FAdd(ComplexityTerm, EnergyTermByTag))))

\* a movie whose genre string holds "Action" inside another tag only, scored
\* against a high-energy profile
C30_SubstringCase ==
    /\ ret.op = "score"
    /\ ret.profile.energy_level = "high"
    /\ Contains("Action", ret.movie.genres)
    /\ "Action" \notin Range(Split(ret.movie.genres))

====
